---- MODULE Spec2Model ----
(***************************************************************************)
(* A model of streamlit_app.py: the Fireflies meeting prototype.           *)
(*                                                                         *)
(* The program is a Streamlit script.  Every user action (a button press,  *)
(* a selector pick, an edit of an input) re-runs the script from the top   *)
(* against the session state; an unhandled exception ends the run where it *)
(* is raised and keeps what the run already wrote and displayed.  One      *)
(* action of the model is one whole script run.                            *)
(*                                                                         *)
(* Text that the program formats character by character (speaker names,    *)
(* utterance texts, the transcript block, the subject's speaker part) is a *)
(* sequence of one-character strings; text that it only passes on (ids,    *)
(* titles, raw LLM replies, addresses) is an opaque string.                *)
(***************************************************************************)
EXTENDS Integers, Sequences, FiniteSets, TLC

VARIABLES
    transcripts,              \* st.session_state.transcripts
    selected_transcript_id,   \* st.session_state.selected_transcript_id
    widget_value,             \* the selectbox's value kept by Streamlit between runs
    analyze_buttons,          \* whether the last run rendered the category buttons
    fireflies_api_key,        \* text input
    email,                    \* text input
    auto_email,               \* checkbox
    hashOrder,                \* the process's string hash order (PYTHONHASHSEED)
    pc,                       \* "idle": the page is shown; "run": a script run is pending
    action,                   \* the user action that triggered the run
    pick,                     \* the option picked in the selector, "" if none
    prompt_type,              \* the category button of the last run, "" if none
    provider_resp,            \* the provider response consumed by the last run
    analysis_reply,           \* the LLM reply consumed by gpt4o_json_prompt
    draft_reply,              \* the LLM reply consumed by generate_follow_up_email
    smtp_result,              \* the mail relay's behaviour met by send_email
    out,                      \* what the last run did and displayed, in order
    fault,                    \* the unhandled exception that ended the last run
    text_area,                \* the content of the 'Transcript' text area
    subject,                  \* the subject the last run built for send_email
    fmt_in,                   \* formatter harness: the transcript given
    fmt_out,                  \* formatter harness: the text returned
    fmt_done                  \* formatter harness: whether it was applied

vars == <<transcripts, selected_transcript_id, widget_value, analyze_buttons, fireflies_api_key,
          email, auto_email, hashOrder, pc, action, pick, prompt_type, provider_resp,
          analysis_reply, draft_reply, smtp_result, out, fault, text_area,
          subject, fmt_in, fmt_out, fmt_done>>

appVars == <<transcripts, selected_transcript_id, widget_value, analyze_buttons, fireflies_api_key,
             email, auto_email, hashOrder, pc, action, pick, prompt_type, provider_resp,
             analysis_reply, draft_reply, smtp_result, out, fault, text_area,
             subject>>

fmtVars == <<fmt_in, fmt_out, fmt_done>>

(***************************************************************************)
(* Bounds of the model.                                                    *)
(***************************************************************************)
MaxList == 2        \* records in one provider response
MaxSentences == 2   \* utterances of a transcript given to the formatter harness

(***************************************************************************)
(* Python values.                                                          *)
(***************************************************************************)
NoneVal == [py |-> "None"]
PyStr(s) == [py |-> "str", s |-> s]
PyInt(n) == [py |-> "int", n |-> n]
IsNone(v) == v.py = "None"

\* str(v) as an f-string field renders it: None becomes the text None.
Str(v) == IF IsNone(v) THEN <<"N", "o", "n", "e">> ELSE v.s

\* bool(s) of an opaque string.
Truthy(s) == s # ""

\* sep.join(parts)
RECURSIVE Join(_, _)
Join(parts, sep) ==
    IF Len(parts) = 0 THEN <<>>
    ELSE IF Len(parts) = 1 THEN parts[1]
    ELSE parts[1] \o sep \o Join(Tail(parts), sep)

NL == <<"\n">>

(***************************************************************************)
(* get_transcript_content                                                  *)
(***************************************************************************)
SentenceLine(sentence) ==
    Str(sentence.speaker_name) \o <<":", " ">> \o Str(sentence.text)

get_transcript_content_trailing(transcript) ==
    LET RECURSIVE Each(_)
        Each(ss) == IF ss = <<>> THEN <<>>
                    ELSE SentenceLine(Head(ss)) \o NL \o Each(Tail(ss))
    IN  Each(transcript.sentences)

get_transcript_content(transcript) ==
    Join([i \in 1..Len(transcript.sentences) |->
              SentenceLine(transcript.sentences[i])], NL)

(***************************************************************************)
(* The transcription provider: the records it may hold and the responses   *)
(* it may give to the one POST of fetch_transcripts.                       *)
(***************************************************************************)
Alice == PyStr(<<"A", "l">>)
Bob == PyStr(<<"B", "o">>)
SpeakerNames == {Alice, Bob}

Sentence(speaker, text) == [speaker_name |-> speaker, text |-> PyStr(text)]

\* id -> record.  "a": a speaker who returns; "b": no utterances and a null
\* date; "c": an utterance whose speaker_name is null.
Catalogue ==
    [i \in {"a", "b", "c"} |->
        CASE i = "a" -> [id |-> "a", title |-> "Kickoff", date |-> PyInt(3 * 86400000 + 1000),
                         sentences |-> << Sentence(Bob, <<"h", "i">>),
                                          Sentence(Alice, <<"o", "k">>),
                                          Sentence(Bob, <<"y">>) >>]
          [] i = "b" -> [id |-> "b", title |-> "Standup", date |-> NoneVal,
                         sentences |-> << >>]
          [] i = "c" -> [id |-> "c", title |-> "Review", date |-> PyInt(5 * 86400000),
                         sentences |-> << Sentence(Alice, <<"g", "o">>),
                                          Sentence(NoneVal, <<"h", "m">>) >>]]

Ids == DOMAIN Catalogue

\* The lists of at most MaxList records with distinct ids.
TranscriptLists ==
    LET IdSeqs == UNION {[1..n -> Ids] : n \in 0..MaxList}
        Distinct(q) == \A i, j \in DOMAIN q : i # j => q[i] # q[j]
    IN  {[k \in DOMAIN q |-> Catalogue[q[k]]] : q \in {x \in IdSeqs : Distinct(x)}}

\* status: the HTTP status.  body: "html" is not JSON; "errors_only" is JSON
\* without the data key; "data_null" is {"data": null}; "data_empty" is
\* {"data": {}}; "transcripts" carries data.transcripts.
ProviderResponses ==
    {[status |-> 500, body |-> "html", transcripts |-> <<>>]}
    \cup {[status |-> 200, body |-> b, transcripts |-> <<>>] :
              b \in {"html", "errors_only", "data_null", "data_empty"}}
    \cup {[status |-> 200, body |-> "transcripts", transcripts |-> l] :
              l \in TranscriptLists}

NoResp == [status |-> 0, body |-> "", transcripts |-> <<>>]

(***************************************************************************)
(* fetch_transcripts: the list, or the exception it raises.                *)
(***************************************************************************)
fetch_transcripts_no_check(resp) ==
    IF resp.body = "transcripts" /\ resp.status = 200
    THEN [raised |-> "", value |-> resp.transcripts]
    ELSE [raised |-> "", value |-> <<>>]

fetch_transcripts(resp) ==
    IF resp.status # 200 THEN [raised |-> "Exception", value |-> <<>>]
    ELSE CASE resp.body = "html" -> [raised |-> "JSONDecodeError", value |-> <<>>]
           [] resp.body = "errors_only" -> [raised |-> "KeyError", value |-> <<>>]
           [] resp.body = "data_null" -> [raised |-> "TypeError", value |-> <<>>]
           [] resp.body = "data_empty" -> [raised |-> "KeyError", value |-> <<>>]
           [] OTHER -> [raised |-> "", value |-> resp.transcripts]

(***************************************************************************)
(* The LLM service: a reply is a transport failure or a message content;   *)
(* JsonLoads is json.loads on the contents the model draws.                *)
(***************************************************************************)
Reply(transport, content) == [transport |-> transport, content |-> content]
NoReply == Reply("unused", "")

PyDict(items) == [py |-> "dict", items |-> items]
EmptyItems == [k \in {} |-> ""]

FullDetail == PyDict([topic |-> "T", description |-> "D", relevance |-> "R"])

AnalysisContents ==
    {"Sure! Here is the summary", "{}", "{full}", "{no summary}",
     "{no follow_up_suggestions}", "{detail without relevance}"}

DraftContents ==
    {"Subject: Follow-up", "{subject, body}", "{subject}"}

AnalysisReplies == {Reply("error", "")} \cup {Reply("ok", x) : x \in AnalysisContents}
DraftReplies == {Reply("error", "")} \cup {Reply("ok", x) : x \in DraftContents}

JsonLoads(content) ==
    CASE content = "{}" -> [raised |-> FALSE, value |-> PyDict(EmptyItems)]
      [] content = "{full}" ->
            [raised |-> FALSE,
             value |-> PyDict([summary |-> "S", key_points |-> <<"p1", "p2">>,
                               details |-> <<FullDetail>>,
                               follow_up_suggestions |-> <<"s1">>])]
      [] content = "{no summary}" ->
            [raised |-> FALSE,
             value |-> PyDict([key_points |-> <<"p1">>, details |-> <<>>,
                               follow_up_suggestions |-> <<>>])]
      [] content = "{no follow_up_suggestions}" ->
            [raised |-> FALSE,
             value |-> PyDict([summary |-> "S", key_points |-> <<"p1">>,
                               details |-> <<FullDetail>>])]
      [] content = "{detail without relevance}" ->
            [raised |-> FALSE,
             value |-> PyDict([summary |-> "S", key_points |-> <<>>,
                               details |-> <<PyDict([topic |-> "T", description |-> "D"])>>,
                               follow_up_suggestions |-> <<"s1">>])]
      [] content = "{subject, body}" ->
            [raised |-> FALSE,
             value |-> PyDict([subject |-> "Meeting Follow-up", body |-> "<p>Hi</p>"])]
      [] content = "{subject}" ->
            [raised |-> FALSE, value |-> PyDict([subject |-> "Meeting Follow-up"])]
      [] OTHER -> [raised |-> TRUE, value |-> NoneVal]

\* bool(v) of None or a dict.
PyTruthy(v) == IF IsNone(v) THEN FALSE ELSE DOMAIN v.items # {}

(***************************************************************************)
(* The script run's context: session state, widget state, what the run has *)
(* displayed so far and the exception that ended it, if one did.           *)
(***************************************************************************)
NoFault == ""
NoWidget == [rendered |-> FALSE, options |-> <<>>, value |-> ""]
NoText == [shown |-> FALSE, value |-> <<>>]
NoSubject == [built |-> FALSE, label |-> "", title |-> "", date |-> 0, speakers |-> <<>>]

Event(ev, tag) == [ev |-> ev, tag |-> tag]

Emit(c, ev, tag) ==
    IF c.fault # NoFault THEN c ELSE [c EXCEPT !.out = Append(@, Event(ev, tag))]

Raise(c, exc) ==
    IF c.fault # NoFault THEN c ELSE [c EXCEPT !.fault = exc]

Has(o, ev, tag) == \E i \in DOMAIN o : o[i] = Event(ev, tag)
HasEv(o, ev) == \E i \in DOMAIN o : o[i].ev = ev
Count(o, ev, tag) == Cardinality({i \in DOMAIN o : o[i] = Event(ev, tag)})

(***************************************************************************)
(* Lines 300-306: the refresh handler.                                     *)
(***************************************************************************)
RefreshHandler(c, api_key, refresh_button, resp) ==
    IF Truthy(api_key) /\ refresh_button
    THEN LET c1 == Emit([c EXCEPT !.provider_resp = resp], "request", "fetch")
             r == fetch_transcripts(resp)
         IN  IF r.raised # ""
             THEN Emit(c1, "error", "Error refreshing transcripts")
             ELSE Emit([c1 EXCEPT !.transcripts = r.value],
                       "success", "Transcripts refreshed successfully.")
    ELSE c

(***************************************************************************)
(* Lines 308-319: the selector.  Streamlit returns the user's pick, else   *)
(* the value the widget held if its options are the ones it was rendered   *)
(* with, else the first option; a widget that is not rendered is dropped.  *)
(***************************************************************************)
OptionsOf(list) == [i \in DOMAIN list |-> list[i].id]

SelectBoxValue(widget, options, picked) ==
    IF picked # "" THEN picked
    ELSE IF widget.rendered /\ widget.options = options THEN widget.value
    ELSE options[1]

SelectBox(c, picked) ==
    IF c.transcripts # <<>>
    THEN LET transcript_options == OptionsOf(c.transcripts)
             transcript_id == SelectBoxValue(c.widget, transcript_options, picked)
         IN  [c EXCEPT !.widget = [rendered |-> TRUE, options |-> transcript_options,
                                   value |-> transcript_id],
                       !.selected = IF Truthy(transcript_id)
                                    THEN PyStr(transcript_id) ELSE @]
    ELSE [c EXCEPT !.widget = NoWidget]

(***************************************************************************)
(* next(t for t in transcripts if t['id'] == selected_transcript_id)       *)
(***************************************************************************)
IsSelected(c) == ~IsNone(c.selected) /\ Truthy(c.selected.s)

Matching(c) == SelectSeq(c.transcripts, LAMBDA t : t.id = c.selected.s)

(***************************************************************************)
(* Lines 321-326: the transcript display.                                  *)
(***************************************************************************)
TranscriptDisplay(c) ==
    IF c.fault = NoFault /\ IsSelected(c)
    THEN IF Matching(c) = <<>>
         THEN Raise(c, "StopIteration")
         ELSE Emit([c EXCEPT !.text_area =
                        [shown |-> TRUE,
                         value |-> get_transcript_content(Matching(c)[1])]],
                   "text_area", "Transcript")
    ELSE c

(***************************************************************************)
(* gpt4o_json_prompt and generate_follow_up_email: [c, ret], ret the       *)
(* parsed reply or None.  Every exception is caught inside.                *)
(***************************************************************************)
gpt4o_json_prompt_uncaught(c, reply) ==
    LET c1 == Emit([c EXCEPT !.analysis_reply = reply], "request", "analysis")
    IN  IF reply.transport # "ok"
        THEN [c |-> Emit(c1, "error", "An error occurred while analyzing the transcript"),
              ret |-> NoneVal]
        ELSE IF JsonLoads(reply.content).raised
             THEN [c |-> Raise(c1, "JSONDecodeError"), ret |-> NoneVal]
             ELSE [c |-> c1, ret |-> JsonLoads(reply.content).value]

gpt4o_json_prompt_retry(c, reply) ==
    LET c1 == Emit([c EXCEPT !.analysis_reply = reply], "request", "analysis")
        again == Emit(c1, "request", "analysis")
    IN  IF reply.transport # "ok"
        THEN [c |-> Emit(again, "error", "An error occurred while analyzing the transcript"),
              ret |-> NoneVal]
        ELSE IF JsonLoads(reply.content).raised
             THEN [c |-> Emit(Emit(again, "error", "Error decoding JSON"),
                              "error_raw", reply.content),
                   ret |-> NoneVal]
             ELSE [c |-> c1, ret |-> JsonLoads(reply.content).value]

gpt4o_json_prompt(c, reply) ==
    LET c1 == Emit([c EXCEPT !.analysis_reply = reply], "request", "analysis")
    IN  IF reply.transport # "ok"
        THEN [c |-> Emit(c1, "error", "An error occurred while analyzing the transcript"),
              ret |-> NoneVal]
        ELSE IF JsonLoads(reply.content).raised
             THEN [c |-> Emit(Emit(c1, "error", "Error decoding JSON"),
                              "error_raw", reply.content),
                   ret |-> NoneVal]
             ELSE [c |-> c1, ret |-> JsonLoads(reply.content).value]

generate_follow_up_email(c, reply) ==
    LET c1 == Emit([c EXCEPT !.draft_reply = reply], "request", "draft")
    IN  IF c.fault # NoFault THEN [c |-> c, ret |-> NoneVal]
        ELSE IF reply.transport # "ok"
        THEN [c |-> Emit(c1, "error", "An error occurred while generating the follow-up email"),
              ret |-> NoneVal]
        ELSE IF JsonLoads(reply.content).raised
             THEN [c |-> Emit(Emit(c1, "error", "Error decoding JSON for follow-up email"),
                              "error_raw", reply.content),
                   ret |-> NoneVal]
             ELSE [c |-> c1, ret |-> JsonLoads(reply.content).value]

(***************************************************************************)
(* d[key], written once (a string) or once per element (a list): a        *)
(* missing key raises KeyError where it is read.                           *)
(***************************************************************************)
WriteItem(c, d, key, tag) ==
    IF c.fault # NoFault THEN c
    ELSE IF IsNone(d) THEN Raise(c, "TypeError")
    ELSE IF key \in DOMAIN d.items THEN Emit(c, "show", tag)
    ELSE Raise(c, "KeyError")

RECURSIVE WriteTimes(_, _, _)
WriteTimes(c, n, tag) ==
    IF n = 0 THEN c ELSE WriteTimes(Emit(c, "show", tag), n - 1, tag)

WriteEach(c, d, key, tag) ==
    IF c.fault # NoFault THEN c
    ELSE IF IsNone(d) THEN Raise(c, "TypeError")
    ELSE IF key \in DOMAIN d.items THEN WriteTimes(c, Len(d.items[key]), tag)
    ELSE Raise(c, "KeyError")

RECURSIVE WriteDetails(_, _)
WriteDetails(c, details) ==
    IF details = <<>> \/ c.fault # NoFault THEN c
    ELSE WriteDetails(
             WriteItem(WriteItem(WriteItem(c, Head(details), "topic", "detail.topic"),
                                 Head(details), "description", "detail.description"),
                       Head(details), "relevance", "detail.relevance"),
             Tail(details))

(***************************************************************************)
(* Lines 347-362: the analysis sections and the follow-up email body.      *)
(***************************************************************************)
ShowAnalysis(c, gpt4o_response, follow_up_email) ==
    LET a == gpt4o_response
        c1 == Emit(c, "show", "## Analysis")
        c2 == WriteItem(c1, a, "summary", "summary")
        c3 == WriteEach(Emit(c2, "show", "### Key Points"), a, "key_points", "key_point")
        c4 == Emit(c3, "show", "### Details")
        c5 == IF c4.fault # NoFault THEN c4
              ELSE IF IsNone(a) THEN Raise(c4, "TypeError")
              ELSE IF "details" \in DOMAIN a.items THEN WriteDetails(c4, a.items.details)
              ELSE Raise(c4, "KeyError")
        c6 == WriteEach(Emit(c5, "show", "### Follow-up Suggestions"),
                        a, "follow_up_suggestions", "follow_up_suggestion")
        c7 == Emit(c6, "show", "### Follow-up Email")
    IN  WriteItem(c7, follow_up_email, "body", "email_body")

(***************************************************************************)
(* format_analysis_to_html: the document's parts, or KeyError.             *)
(***************************************************************************)
CategoryLabel(pt) ==
    CASE pt = "financial" -> "Financial"
      [] pt = "action_items" -> "Action Items"
      [] pt = "risk_assessment" -> "Risk Assessment"
      [] pt = "tax_info" -> "Tax Info"
      [] pt = "client_concerns" -> "Client Concerns"
      [] pt = "compliance" -> "Compliance"
      [] OTHER -> pt

Categories ==
    {"financial", "action_items", "risk_assessment", "tax_info", "client_concerns",
     "compliance"}

format_analysis_to_html(analysis_type, gpt4o_response, follow_up_email) ==
    LET a == gpt4o_response.items
        complete ==
            /\ {"summary", "key_points", "details", "follow_up_suggestions"} \subseteq DOMAIN a
            /\ \A i \in DOMAIN a.details :
                   {"topic", "description", "relevance"} \subseteq DOMAIN a.details[i].items
    IN  IF complete
        THEN [raised |-> "",
              value |-> [h1 |-> CategoryLabel(analysis_type), analysis |-> a,
                         follow_up |-> follow_up_email]]
        ELSE [raised |-> "KeyError", value |-> NoneVal]

(***************************************************************************)
(* Lines 368-375: the subject.  A set of strings is iterated in the order  *)
(* of the process's string hashes; datetime arithmetic on None and join    *)
(* over a None item raise TypeError.                                       *)
(***************************************************************************)
HashOrders == {<<NoneVal, Alice, Bob>>, <<NoneVal, Bob, Alice>>}

SetIterate(S) == SelectSeq(hashOrder, LAMBDA n : n \in S)

\* strftime('%Y-%m-%d') of the instant: the index of its day.
FormatDate(ms) == (ms \div 1000) \div 86400

BuildSubject(c, pt, selected_transcript) ==
    LET speakers == {selected_transcript.sentences[i].speaker_name :
                         i \in DOMAIN selected_transcript.sentences}
        order == SetIterate(speakers)
    IN  IF c.fault # NoFault THEN c
        ELSE IF IsNone(selected_transcript.date) THEN Raise(c, "TypeError")
        ELSE IF \E n \in speakers : IsNone(n) THEN Raise(c, "TypeError")
        ELSE [c EXCEPT !.subject =
                 [built |-> TRUE, label |-> CategoryLabel(pt),
                  title |-> selected_transcript.title,
                  date |-> FormatDate(selected_transcript.date.n),
                  speakers |-> Join([i \in DOMAIN order |-> order[i].s], <<",", " ">>)]]

(***************************************************************************)
(* send_email: every exception is caught and reported.                     *)
(***************************************************************************)
SmtpResults == {"ok", "connect_failed", "login_failed", "rejected"}

send_email(c, recipient_email, smtp) ==
    LET c0 == [c EXCEPT !.smtp_result = smtp]
        c1 == Emit(c0, "smtp", "connect")
        c2 == Emit(c1, "smtp", "login")
        c3 == Emit(c2, "smtp", "sendmail")
    IN  IF c.fault # NoFault THEN c
        ELSE CASE smtp = "connect_failed" -> Emit(c1, "error", "Error sending email")
               [] smtp = "login_failed" -> Emit(c2, "error", "Error sending email")
               [] smtp = "rejected" -> Emit(c3, "error", "Error sending email")
               [] OTHER -> Emit(c3, "success", "Email sent successfully!")

(***************************************************************************)
(* handle_analysis                                                         *)
(***************************************************************************)
EitherTruthy(gpt4o_response, follow_up_email) ==
    PyTruthy(gpt4o_response) \/ PyTruthy(follow_up_email)

BothTruthy(gpt4o_response, follow_up_email) ==
    PyTruthy(gpt4o_response) /\ PyTruthy(follow_up_email)

ShouldSendAlways(auto, recipient) == auto

ShouldSend(auto, recipient) == auto /\ Truthy(recipient)

SendStep(c, pt, selected_transcript, gpt4o_response, follow_up_email, recipient, smtp) ==
    LET html == format_analysis_to_html(pt, gpt4o_response, follow_up_email.items.body)
        c1 == IF html.raised # "" THEN Raise(c, html.raised) ELSE c
        c2 == BuildSubject(c1, pt, selected_transcript)
    IN  send_email(c2, recipient, smtp)

handle_analysis(c, pt, a_reply, d_reply, auto, recipient, smtp) ==
    IF IsSelected(c)
    THEN IF Matching(c) = <<>>
         THEN Raise(c, "StopIteration")
         ELSE LET selected_transcript == Matching(c)[1]
                  c1 == Emit(c, "write", "Analyzing with GPT-4o")
                  g == gpt4o_json_prompt(c1, a_reply)
                  f == generate_follow_up_email(g.c, d_reply)
              IN  IF f.c.fault # NoFault THEN f.c
                  ELSE IF BothTruthy(g.ret, f.ret)
                  THEN LET c2 == ShowAnalysis(f.c, g.ret, f.ret)
                       IN  IF c2.fault = NoFault /\ ShouldSend(auto, recipient)
                           THEN SendStep(c2, pt, selected_transcript, g.ret, f.ret,
                                         recipient, smtp)
                           ELSE c2
                  ELSE Emit(f.c, "error", "Failed to generate analysis or follow-up email")
    ELSE c

(***************************************************************************)
(* Lines 328-335 and 381-393: the category buttons and their dispatch.  A  *)
(* run that has faulted before line 328 renders no category button.        *)
(***************************************************************************)
RenderButtons(c) ==
    IF c.fault = NoFault THEN [c EXCEPT !.buttons = TRUE] ELSE c

ButtonDispatch(c, pt, a_reply, d_reply, auto, recipient, smtp) ==
    IF c.fault = NoFault /\ pt # ""
    THEN handle_analysis(c, pt, a_reply, d_reply, auto, recipient, smtp)
    ELSE c

(***************************************************************************)
(* One script run, top to bottom.                                          *)
(***************************************************************************)
Ctx0 ==
    [transcripts |-> transcripts, selected |-> selected_transcript_id,
     widget |-> widget_value, out |-> <<>>, fault |-> NoFault, buttons |-> FALSE,
     text_area |-> NoText, subject |-> NoSubject, provider_resp |-> NoResp,
     analysis_reply |-> NoReply, draft_reply |-> NoReply, smtp_result |-> "unused"]

ScriptRun(api_key, recipient, auto, refresh_button, picked, pt, resp, a_reply, d_reply, smtp) ==
    ButtonDispatch(
        RenderButtons(
            TranscriptDisplay(
                SelectBox(RefreshHandler(Ctx0, api_key, refresh_button, resp), picked))),
        pt, a_reply, d_reply, auto, recipient, smtp)

Commit(c) ==
    /\ transcripts' = c.transcripts
    /\ selected_transcript_id' = c.selected
    /\ widget_value' = c.widget
    /\ analyze_buttons' = c.buttons
    /\ provider_resp' = c.provider_resp
    /\ analysis_reply' = c.analysis_reply
    /\ draft_reply' = c.draft_reply
    /\ smtp_result' = c.smtp_result
    /\ out' = c.out
    /\ fault' = c.fault
    /\ text_area' = c.text_area
    /\ subject' = c.subject

\* The services answer the requests of the run: a provider response for a
\* refresh press, LLM replies and a relay result for a category press.
RunScript ==
    /\ pc = "run"
    /\ \E resp \in (IF action = "refresh" THEN ProviderResponses ELSE {NoResp}),
          a_reply \in (IF action = "category" THEN AnalysisReplies ELSE {NoReply}),
          d_reply \in (IF action = "category" THEN DraftReplies ELSE {NoReply}),
          smtp \in (IF action = "category" THEN SmtpResults ELSE {"unused"}) :
           Commit(ScriptRun(fireflies_api_key, email, auto_email, action = "refresh",
                            pick, prompt_type, resp, a_reply, d_reply, smtp))
    /\ pc' = "idle"
    /\ UNCHANGED <<fireflies_api_key, email, auto_email, action, prompt_type, pick,
                   hashOrder, fmtVars>>

(***************************************************************************)
(* The user's actions.  Each one makes Streamlit re-run the script: the    *)
(* page of the last run is cleared and the run is pending.                 *)
(***************************************************************************)
Rerun(act, pt, picked) ==
    /\ pc = "idle"
    /\ pc' = "run"
    /\ action' = act
    /\ prompt_type' = pt
    /\ pick' = picked
    /\ provider_resp' = NoResp
    /\ analysis_reply' = NoReply
    /\ draft_reply' = NoReply
    /\ smtp_result' = "unused"
    /\ out' = <<>>
    /\ fault' = NoFault
    /\ text_area' = NoText
    /\ subject' = NoSubject
    /\ UNCHANGED <<transcripts, selected_transcript_id, widget_value, analyze_buttons,
                   hashOrder, fmtVars>>

ApiKeys == {"", "ff-key"}
Recipients == {"", "cpa@example.com"}

\* The user edits a text input or toggles the checkbox.
EditInputs ==
    \E k \in ApiKeys, e \in Recipients, a \in BOOLEAN :
        /\ <<k, e, a>> # <<fireflies_api_key, email, auto_email>>
        /\ fireflies_api_key' = k
        /\ email' = e
        /\ auto_email' = a
        /\ Rerun("edit", "", "")

\* The user presses 'Refresh Transcripts'.
PressRefresh ==
    /\ Rerun("refresh", "", "")
    /\ UNCHANGED <<fireflies_api_key, email, auto_email>>

\* The user picks another option of the selector.
PickTranscript ==
    \E i \in DOMAIN widget_value.options :
        /\ widget_value.rendered
        /\ widget_value.options[i] # widget_value.value
        /\ Rerun("pick", "", widget_value.options[i])
        /\ UNCHANGED <<fireflies_api_key, email, auto_email>>

\* The user presses one of the six category buttons.
PressCategory ==
    \E pt \in Categories :
        /\ analyze_buttons
        /\ Rerun("category", pt, "")
        /\ UNCHANGED <<fireflies_api_key, email, auto_email>>

(***************************************************************************)
(* The formatter on its own: the transcripts with at most MaxSentences     *)
(* utterances over these speakers and texts.                               *)
(***************************************************************************)
FmtSpeakers == {Alice, Bob, NoneVal}
FmtTexts == {<<>>, <<"x">>, <<"\n">>}

FmtInputs ==
    {[id |-> "f", title |-> "F", date |-> NoneVal, sentences |-> ss] :
        ss \in UNION {[1..n -> {Sentence(sp, tx) : sp \in FmtSpeakers, tx \in FmtTexts}] :
                          n \in 0..MaxSentences}}

ApplyFormatter ==
    /\ ~fmt_done
    /\ fmt_out' = get_transcript_content(fmt_in)
    /\ fmt_done' = TRUE
    /\ UNCHANGED <<fmt_in, appVars>>

(***************************************************************************)
(* The specifications.                                                     *)
(***************************************************************************)
InitApp ==
    /\ transcripts = <<>>
    /\ selected_transcript_id = NoneVal
    /\ widget_value = NoWidget
    /\ analyze_buttons = TRUE
    /\ fireflies_api_key = ""
    /\ email = ""
    /\ auto_email = FALSE
    /\ pc = "idle"
    /\ action = "start"
    /\ pick = ""
    /\ prompt_type = ""
    /\ provider_resp = NoResp
    /\ analysis_reply = NoReply
    /\ draft_reply = NoReply
    /\ smtp_result = "unused"
    /\ out = <<>>
    /\ fault = NoFault
    /\ text_area = NoText
    /\ subject = NoSubject

Init ==
    /\ InitApp
    /\ hashOrder \in HashOrders
    /\ fmt_in = Catalogue["b"]
    /\ fmt_out = <<>>
    /\ fmt_done = FALSE

Next == EditInputs \/ PressRefresh \/ PickTranscript \/ PressCategory \/ RunScript

Spec == Init /\ [][Next]_vars

InitFmt ==
    /\ InitApp
    /\ hashOrder = <<NoneVal, Alice, Bob>>
    /\ fmt_in \in FmtInputs
    /\ fmt_out = <<>>
    /\ fmt_done = FALSE

NextFmt == ApplyFormatter

SpecFmt == InitFmt /\ [][NextFmt]_vars

(***************************************************************************)
(* Properties.                                                             *)
(***************************************************************************)
Finished(act) == pc = "idle" /\ action = act

\* The LLM call returned a message whose content parses as JSON.
Succeeded(reply) == reply.transport = "ok" /\ ~JsonLoads(reply.content).raised

\* The parsed analysis has the four fields, and each detail its three.
AnalysisShape(v) ==
    /\ ~IsNone(v)
    /\ {"summary", "key_points", "details", "follow_up_suggestions"} \subseteq DOMAIN v.items
    /\ \A i \in DOMAIN v.items.details :
           {"topic", "description", "relevance"} \subseteq DOMAIN v.items.details[i].items

InList(id, list) == \E i \in DOMAIN list : list[i].id = id

Position(o, ev, tag) == CHOOSE i \in DOMAIN o : o[i] = Event(ev, tag)

\* C1: in every state the selected transcript id is unset or is the id of a
\* record of the stored list, and no script run ends in the transcript
\* display's lookup of a selection that is not in the list.
C1_SelectionInList ==
    /\ IsNone(selected_transcript_id) \/ InList(selected_transcript_id.s, transcripts)
    /\ fault # "StopIteration"

\* C2: a category run whose analysis reply is valid JSON lacking a required
\* field reports an error and ends without an unhandled exception.
C2_MissingFieldIsReported ==
    (/\ Finished("category")
     /\ Succeeded(analysis_reply)
     /\ ~AnalysisShape(JsonLoads(analysis_reply.content).value))
    => (fault = NoFault /\ HasEv(out, "error"))

FailingResponse(resp) == resp.status # 200 \/ resp.body # "transcripts"

\* C3: a refresh whose fetch fails (a status other than 200, or a body without
\* data.transcripts) reports the error and leaves the stored list and the
\* selected id as they were before the press.
C3_FailedRefreshKeepsState ==
    [][(/\ pc = "run" /\ action = "refresh" /\ pc' = "idle"
        /\ Has(out', "request", "fetch")
        /\ FailingResponse(provider_resp'))
       => (/\ Has(out', "error", "Error refreshing transcripts")
           /\ ~HasEv(out', "success")
           /\ transcripts' = transcripts
           /\ selected_transcript_id' = selected_transcript_id)]_vars

C3_Witness ==
    /\ Finished("refresh")
    /\ Has(out, "request", "fetch")
    /\ FailingResponse(provider_resp)
    /\ transcripts # <<>>
    /\ ~IsNone(selected_transcript_id)

\* C4: in a category run the analysis sections and the email body are shown
\* only if both LLM calls succeeded; if either failed, nothing of them is
\* shown and the failure message is.
C4_BothOrNeither ==
    Finished("category") =>
        /\ HasEv(out, "show") => (Succeeded(analysis_reply) /\ Succeeded(draft_reply))
        /\ (/\ Has(out, "request", "analysis")
            /\ ~(Succeeded(analysis_reply) /\ Succeeded(draft_reply)))
           => (/\ ~HasEv(out, "show")
               /\ Has(out, "error", "Failed to generate analysis or follow-up email"))

C4_Witness ==
    /\ Finished("category")
    /\ Succeeded(analysis_reply)
    /\ AnalysisShape(JsonLoads(analysis_reply.content).value)
    /\ draft_reply.transport = "error"
    /\ Has(out, "error", "Failed to generate analysis or follow-up email")

\* C5: one script run issues at most one analysis request, one draft request,
\* one fetch and one mail submission, it issues LLM requests only for a
\* category press and a fetch only for a refresh press, and a run happens
\* only when a user action is pending.
C5_OneRequestEach ==
    /\ Count(out, "request", "analysis") <= 1
    /\ Count(out, "request", "draft") <= 1
    /\ Count(out, "request", "fetch") <= 1
    /\ Count(out, "smtp", "connect") <= 1
    /\ Count(out, "smtp", "sendmail") <= 1
    /\ Has(out, "request", "analysis") \/ Has(out, "request", "draft") => action = "category"
    /\ Has(out, "request", "fetch") => action = "refresh"
    /\ pc = "run" => out = <<>>

C5_Witness ==
    /\ Finished("category")
    /\ analysis_reply.transport = "error"
    /\ draft_reply.transport = "error"
    /\ Count(out, "request", "analysis") = 1
    /\ Count(out, "request", "draft") = 1

\* C6: a category run that shows the analysis and the email body and is to
\* send (checkbox on, recipient given) but sends no mail ends without an
\* unhandled exception, reports the send as failed, keeps the analysis on the
\* page and leaves the stored list and the selected id unchanged.
C6_SendFailureIsContained ==
    [][(/\ pc = "run" /\ action = "category" /\ pc' = "idle"
        /\ Has(out', "show", "email_body")
        /\ auto_email /\ Truthy(email)
        /\ ~Has(out', "success", "Email sent successfully!"))
       => (/\ fault' = NoFault
           /\ Has(out', "error", "Error sending email")
           /\ transcripts' = transcripts
           /\ selected_transcript_id' = selected_transcript_id)]_vars

RECURSIVE FirstAppearance(_)
FirstAppearance(names) ==
    IF names = <<>> THEN <<>>
    ELSE <<Head(names)>> \o
         FirstAppearance(SelectSeq(Tail(names), LAMBDA n : n # Head(names)))

\* C7: the subject a run builds is a function of the category and the
\* selected transcript, and its speaker part is the distinct speaker names
\* in order of first appearance, joined by ", ".
C7_SubjectSpeakersInOrder ==
    (pc = "idle" /\ subject.built) =>
        LET t == Catalogue[selected_transcript_id.s]
            names == FirstAppearance([i \in DOMAIN t.sentences |->
                                          t.sentences[i].speaker_name.s])
        IN  subject = [built |-> TRUE, label |-> CategoryLabel(prompt_type),
                       title |-> t.title, date |-> FormatDate(t.date.n),
                       speakers |-> Join(names, <<",", " ">>)]

\* C8: a category run whose analysis reply is not valid JSON ends without an
\* unhandled exception, reports the raw reply text and the failure, and shows
\* no analysis output.
C8_InvalidJsonIsReported ==
    (/\ Finished("category")
     /\ analysis_reply.transport = "ok"
     /\ JsonLoads(analysis_reply.content).raised)
    => (/\ fault = NoFault
        /\ Has(out, "error", "Error decoding JSON")
        /\ Has(out, "error_raw", analysis_reply.content)
        /\ Has(out, "error", "Failed to generate analysis or follow-up email")
        /\ ~HasEv(out, "show"))

C8_Witness ==
    /\ Finished("category")
    /\ analysis_reply = Reply("ok", "Sure! Here is the summary")
    /\ Succeeded(draft_reply)
    /\ Has(out, "error_raw", "Sure! Here is the summary")

FmtLine(i) ==
    LET u == fmt_in.sentences[i]
    IN  (IF u.speaker_name.py = "None" THEN <<"N", "o", "n", "e">> ELSE u.speaker_name.s)
        \o <<":", " ">> \o u.text.s

RECURSIVE FmtOffset(_)
FmtOffset(i) == IF i = 1 THEN 1 ELSE FmtOffset(i - 1) + Len(FmtLine(i - 1)) + 1

\* C9: for a transcript of N utterances the formatter returns the N lines
\* "{speaker}: {text}" in the order of the list, each two neighbours
\* separated by one newline, nothing before the first or after the last;
\* for N = 0 it returns the empty string.
C9_FormatterJoinsLines ==
    fmt_done =>
        LET N == Len(fmt_in.sentences)
        IN  /\ N = 0 => fmt_out = <<>>
            /\ N > 0 => Len(fmt_out) = FmtOffset(N) + Len(FmtLine(N)) - 1
            /\ \A i \in 1..N :
                   SubSeq(fmt_out, FmtOffset(i), FmtOffset(i) + Len(FmtLine(i)) - 1)
                       = FmtLine(i)
            /\ \A i \in 1..(N - 1) : fmt_out[FmtOffset(i) + Len(FmtLine(i))] = "\n"

C9_Witness ==
    /\ fmt_done
    /\ Len(fmt_in.sentences) = 2
    /\ fmt_in.sentences[1].speaker_name = Bob
    /\ fmt_in.sentences[2].speaker_name = NoneVal
    /\ fmt_out = <<"B", "o", ":", " ", "x", "\n", "N", "o", "n", "e", ":", " ">>

\* C10: a run talks to the mail relay only if it is the run of a category
\* press with a transcript selected, both LLM calls succeeded, the checkbox
\* is on and the recipient is not empty; it submits at most one message, and
\* only after both LLM requests.
C10_MailOnlyWhenAsked ==
    HasEv(out, "smtp") =>
        /\ action = "category"
        /\ ~IsNone(selected_transcript_id)
        /\ Succeeded(analysis_reply) /\ Succeeded(draft_reply)
        /\ auto_email /\ Truthy(email)
        /\ Count(out, "smtp", "sendmail") <= 1
        /\ \A i \in DOMAIN out :
               out[i].ev = "smtp" =>
                   /\ Position(out, "request", "analysis") < i
                   /\ Position(out, "request", "draft") < i

C10_Witness ==
    /\ Finished("category")
    /\ Has(out, "smtp", "sendmail")
    /\ Has(out, "success", "Email sent successfully!")
    /\ subject.built

====
